---- MODULE Spec2Model ----
(***************************************************************************)
(* Ward admission allocation of gurumbay/hospital_management.              *)
(*                                                                         *)
(*   SpecPolicy  the allocation policy distributionService.suggestWard as  *)
(*               a pure function of a patient and a ward list              *)
(*   Spec        the distribution page (fetchData, handleAssignWard,       *)
(*               handleAutoDistribute) talking to the patient/ward server  *)
(*   SpecBatch   the page used for batch runs only, beside other callers   *)
(*   SpecCommit  concurrent assignment requests against the server         *)
(***************************************************************************)
EXTENDS Integers, Sequences, FiniteSets, TLC

\* ------------------------------------------------------------------ bounds
MaxWards == 2
MaxCap == 3
MaxDiag == 2
NumPatients == 3
MaxFetch == 1
MaxExternal == 1
MaxBeds == 2

\* JavaScript null (a missing diagnosis tag, ward id or occupancy).
Null == 0 - 1

\* Ids of existing Diagnosis records (database keys, from 1); 0 is what the
\* forms use for "no diagnosis chosen".
DiagnosisIds == 1..MaxDiag

VARIABLES
    \* --- SpecPolicy
    polWards,      \* the ward list passed to suggestWard
    polPatient,    \* the patient passed to suggestWard
    polResult,     \* index into polWards of the ward returned, 0 for null
    polPc,         \* "idle" before the call, "done" after it
    \* --- SpecBeds
    bedsWard,      \* the ward passed to getFreeBeds and hasAvailableBeds
    freeBeds,      \* the number getFreeBeds returned
    availableBeds, \* the boolean hasAvailableBeds returned
    bedsCalled,    \* the functions called so far
    \* --- SpecAuth (AuthContext, AuthService, the axios interceptors)
    storedToken,   \* localStorage holds an 'access_token' entry
    storedUser,    \* localStorage holds a 'user' entry
    authHeader,    \* axios.defaults.headers.common['Authorization'] is set
    user,          \* useState of AuthProvider: Null or the user
    isLoading,     \* useState of AuthProvider
    loginCall,     \* the AuthProvider.login call: its position or its result
    refreshCall,   \* the AuthProvider.refreshUser call in flight
    navigating,    \* window.location.href was assigned: the page is leaving
    \* --- the server (storage collaborator and assignment transaction)
    srvWards,      \* ward records by id: the authoritative occupancy
    srvPatients,   \* patient id -> ward_id, Null when unassigned
    \* --- the distribution page (Distribution.tsx) and the other callers
    unassignedPatients, \* useState: ids of the patients listed as unassigned
    wards,              \* useState: the page's ward records
    loading,            \* useState
    error,              \* useState: the message of the alert, "" for none
    selectedPatient,    \* useState: Null or a patient id
    modalOpen,          \* useState
    distributing,       \* useState
    fetch,              \* the fetchData calls in flight, by slot
    assign,             \* the handleAssignWard call in flight
    batch,              \* the handleAutoDistribute run in flight
    report,             \* what the current or last batch run did
    extLeft,            \* assignments other callers may still make
    \* --- SpecCommit
    cmCalls,       \* patient id -> the assignment call issued for the patient
    cmStart        \* srvWards and srvPatients when the calls were issued

polVars == <<polWards, polPatient, polResult, polPc>>
bedVars == <<bedsWard, freeBeds, availableBeds, bedsCalled>>
authVars == <<storedToken, storedUser, authHeader, user, isLoading, loginCall,
              refreshCall, navigating>>
srvVars == <<srvWards, srvPatients>>
cmVars == <<cmCalls, cmStart>>
pageVars == <<unassignedPatients, wards, loading, error, selectedPatient, modalOpen,
              distributing, fetch, assign, batch, report, extLeft>>

Patients == 1..NumPatients
WardIds == 1..MaxWards

\* ------------------------------------------------------ distributionService

\* normalizeWard: a null current_occupancy counts as 0.
normalizeWard(ward) ==
    [ward EXCEPT !.current_occupancy =
        IF ward.current_occupancy = Null THEN 0 ELSE ward.current_occupancy]

\* wards.map(...) of suggestWard: only a ward whose current_occupancy is null
\* (typeof null === 'object') goes through normalizeWard.
normalizedWards(ws) ==
    [i \in 1..Len(ws) |->
        IF ws[i].current_occupancy = Null THEN normalizeWard(ws[i])
        ELSE ws[i]]

\* Rule 1 without its test of the patient's diagnosis id.
AnyDiagnosisId(d) == TRUE

\* JavaScript truthiness of a diagnosis id: null, undefined and 0 are falsy.
Truthy(d) == d # Null /\ d # 0

\* A non-strict comparison: a later ward of equal percentage replaces the
\* accumulator.
PercentLessOrEqual(ward, minWard) ==
    ward.current_occupancy * minWard.max_capacity
        <= minWard.current_occupancy * ward.max_capacity

\* A comparison of the occupancy counts instead of the percentages.
PercentLessCounts(ward, minWard) ==
    ward.current_occupancy < minWard.current_occupancy

\* occupancyPercent < minOccupancyPercent.  (o / c) * 100 in IEEE doubles is
\* monotone in the exact ratio and separates distinct ratios of small
\* integers, so the comparison is the exact one, by cross-multiplication.
PercentLess(ward, minWard) ==
    ward.current_occupancy * minWard.max_capacity
        < minWard.current_occupancy * ward.max_capacity

\* normalizedWards.reduce(...) without an initial value, as an index: the
\* accumulator starts at element 1 and is replaced only by a strictly
\* smaller occupancy percentage.
RECURSIVE ReduceMin(_, _, _)
ReduceMin(nw, i, minIdx) ==
    IF i > Len(nw) THEN minIdx
    ELSE ReduceMin(nw, i + 1, IF PercentLess(nw[i], nw[minIdx]) THEN i ELSE minIdx)

\* Rule 1 without its check for available beds.
SameDiagnosisWardAnyLoad(patientDiagnosisId, ward) ==
    /\ Truthy(patientDiagnosisId)
    /\ ward.diagnosis_id = patientDiagnosisId

\* Rule 1 of suggestWard: same diagnosis and available beds.
SameDiagnosisWard(patientDiagnosisId, ward) ==
    /\ Truthy(patientDiagnosisId)
    /\ ward.diagnosis_id = patientDiagnosisId
    /\ ward.current_occupancy < ward.max_capacity

\* Rule 2 taking any ward with a free bed for an empty one.
EmptyWardAnyFree(ward) == ward.current_occupancy < ward.max_capacity

\* Rule 2 of suggestWard: an empty ward.
EmptyWard(ward) == ward.current_occupancy = 0

\* normalizedWards.find(...) of rule 1 with indexOf: the index of the first
\* ward of the patient's diagnosis with available beds, 0 when there is none.
FindSameDiagnosisWard(nw, patientDiagnosisId) ==
    IF \E i \in 1..Len(nw) : SameDiagnosisWard(patientDiagnosisId, nw[i])
    THEN CHOOSE i \in 1..Len(nw) :
            /\ SameDiagnosisWard(patientDiagnosisId, nw[i])
            /\ \A j \in 1..(i - 1) : ~SameDiagnosisWard(patientDiagnosisId, nw[j])
    ELSE 0

\* normalizedWards.find(...) of rule 2 with indexOf: the index of the first
\* empty ward, 0 when there is none.
FindEmptyWard(nw) ==
    IF \E i \in 1..Len(nw) : EmptyWard(nw[i])
    THEN CHOOSE i \in 1..Len(nw) :
            EmptyWard(nw[i]) /\ \A j \in 1..(i - 1) : ~EmptyWard(nw[j])
    ELSE 0

\* suggestWard(patient, wards): the index in the ward list ws of the ward
\* returned, 0 for null.
suggestWard(patient, ws) ==
    IF Len(ws) = 0 THEN 0
    ELSE
        LET nw == normalizedWards(ws)
            patientDiagnosisId == patient.diagnosis_id
            same == FindSameDiagnosisWard(nw, patientDiagnosisId)
            empty == FindEmptyWard(nw)
        IN  IF same # 0 THEN same
            ELSE IF empty # 0 THEN empty
            ELSE ReduceMin(nw, 2, 1)

\* A policy that normalizes the wards of its argument in place.
wardsNormalizedInPlace(ws) == normalizedWards(ws)

\* The ward list argument after a call of suggestWard: wards.map(...) builds
\* a new array and normalizeWard a new object ({ ...ward }); the function
\* assigns to nothing but its own locals.
wardsAfterSuggest(ws) == ws

\* ward.current_occupancy || 0
OccupancyOrZero(ward) ==
    IF ward.current_occupancy = Null THEN 0 ELSE ward.current_occupancy

Max(a, b) == IF a >= b THEN a ELSE b

\* A difference that is not cut off at 0.
getFreeBedsUnclamped(ward) == ward.max_capacity - OccupancyOrZero(ward)

\* getFreeBeds(ward) = Math.max(0, ward.max_capacity - occupancy)
getFreeBeds(ward) == Max(0, ward.max_capacity - OccupancyOrZero(ward))

\* hasAvailableBeds(ward) = occupancy < ward.max_capacity
hasAvailableBeds(ward) == OccupancyOrZero(ward) < ward.max_capacity

\* --------------------------------------------------------------- SpecPolicy

\* A ward as the server reports it: the occupancy is within the capacity, or
\* null.
WardRecords ==
    { [id |-> i, diagnosis_id |-> d, max_capacity |-> c, current_occupancy |-> o] :
        i \in 1..MaxWards, d \in {Null, 1}, c \in 1..MaxCap, o \in Null..MaxCap }

ValidWard(w) == w.current_occupancy <= w.max_capacity

\* Ward lists with unique ids, in any order.
WardLists ==
    UNION { { ws \in [1..n -> { w \in WardRecords : ValidWard(w) }] :
                \A i, j \in 1..n : i # j => ws[i].id # ws[j].id } :
            n \in 0..MaxWards }

PatientDiagnoses == {Null, 0} \cup DiagnosisIds

\* Values of the variables a specification does not use.
PolIdle ==
    /\ polWards = <<>>
    /\ polPatient = [id |-> 1, diagnosis_id |-> Null]
    /\ polResult = 0
    /\ polPc = "off"
BedIdle ==
    /\ bedsWard = <<>>
    /\ freeBeds = 0
    /\ availableBeds = FALSE
    /\ bedsCalled = {}
AuthIdle ==
    /\ storedToken = FALSE
    /\ storedUser = FALSE
    /\ authHeader = FALSE
    /\ user = Null
    /\ isLoading = FALSE
    /\ loginCall = <<>>
    /\ refreshCall = <<>>
    /\ navigating = FALSE
SrvIdle ==
    /\ srvWards = <<>>
    /\ srvPatients = <<>>
CmIdle ==
    /\ cmCalls = <<>>
    /\ cmStart = <<>>
PageIdle ==
    /\ unassignedPatients = <<>>
    /\ wards = <<>>
    /\ loading = FALSE
    /\ error = ""
    /\ selectedPatient = Null
    /\ modalOpen = FALSE
    /\ distributing = FALSE
    /\ fetch = <<>>
    /\ assign = <<>>
    /\ batch = <<>>
    /\ report = <<>>
    /\ extLeft = 0

PolInit ==
    /\ BedIdle /\ AuthIdle /\ SrvIdle /\ CmIdle /\ PageIdle
    /\ polWards \in WardLists
    /\ polPatient \in { [id |-> 1, diagnosis_id |-> d] : d \in PatientDiagnoses }
    /\ polResult = 0
    /\ polPc = "idle"

PolSuggest ==
    /\ polPc = "idle"
    /\ polResult' = suggestWard(polPatient, polWards)
    /\ polWards' = wardsAfterSuggest(polWards)
    /\ polPc' = "done"
    /\ UNCHANGED <<polPatient, bedVars, authVars, srvVars, cmVars, pageVars>>

\* A second call with the same patient and the same ward list.
PolSuggestAgain ==
    /\ polPc = "done"
    /\ polResult' = suggestWard(polPatient, polWards)
    /\ polWards' = wardsAfterSuggest(polWards)
    /\ polPc' = "again"
    /\ UNCHANGED <<polPatient, bedVars, authVars, srvVars, cmVars, pageVars>>

PolNext == PolSuggest \/ PolSuggestAgain

vars == <<polVars, bedVars, authVars, srvVars, cmVars, pageVars>>

SpecPolicy == PolInit /\ [][PolNext]_vars

\* ----------------------------------------------------------------- SpecBeds
\* getFreeBeds and hasAvailableBeds called on one ward, in either order.
\* The ward may hold more patients than its capacity says.

BedsInit ==
    /\ PolIdle /\ AuthIdle /\ SrvIdle /\ CmIdle /\ PageIdle
    /\ bedsWard \in WardRecords
    /\ freeBeds = 0
    /\ availableBeds = FALSE
    /\ bedsCalled = {}

CallGetFreeBeds ==
    /\ "getFreeBeds" \notin bedsCalled
    /\ freeBeds' = getFreeBeds(bedsWard)
    /\ bedsCalled' = bedsCalled \cup {"getFreeBeds"}
    /\ UNCHANGED <<polVars, authVars, bedsWard, availableBeds, srvVars, cmVars, pageVars>>

CallHasAvailableBeds ==
    /\ "hasAvailableBeds" \notin bedsCalled
    /\ availableBeds' = hasAvailableBeds(bedsWard)
    /\ bedsCalled' = bedsCalled \cup {"hasAvailableBeds"}
    /\ UNCHANGED <<polVars, authVars, bedsWard, freeBeds, srvVars, cmVars, pageVars>>

BedsNext == CallGetFreeBeds \/ CallHasAvailableBeds

SpecBeds == BedsInit /\ [][BedsNext]_vars

\* ----------------------------------------------------------------- SpecAuth
\* The client session: AuthProvider (login, logout, refreshUser), AuthService
\* and the axios response interceptor, over localStorage.  One login call
\* and one refreshUser call are followed at a time.

\* The user record the server returns for the session.
TheUser == 1

NoAuthCall == [pc |-> "idle", withToken |-> FALSE]

\* The answers to a request: 200, 401 and any other failure (another
\* status, no answer within the timeout).  The request interceptor attaches
\* the stored token when there is one; /auth/me answers 200 only to a
\* request that carries a token.
LoginAnswers == {"ok", "unauthorized", "error"}
MeAnswers(withToken) ==
    IF withToken THEN {"ok", "unauthorized", "error"} ELSE {"unauthorized", "error"}

\* The response interceptor on a 401: both entries are removed.
storageAfter401(token, usr) == [token |-> FALSE, user |-> FALSE]

\* What a response does before the caller's continuation runs: on a 401
\* the interceptor clears the storage and assigns window.location.href.
\* tok and usr are the entries as the earlier part of the step left them.
Intercepted(res, tok, usr) ==
    IF res = "unauthorized"
    THEN /\ storedToken' = storageAfter401(tok, usr).token
         /\ storedUser' = storageAfter401(tok, usr).user
         /\ navigating' = TRUE
    ELSE /\ storedToken' = tok
         /\ storedUser' = usr
         /\ UNCHANGED navigating

\* The page is loaded with an empty localStorage; initAuth has run.
AuthInit ==
    /\ PolIdle /\ BedIdle /\ SrvIdle /\ CmIdle /\ PageIdle
    /\ storedToken = FALSE
    /\ storedUser = FALSE
    /\ authHeader = FALSE
    /\ user = Null
    /\ isLoading = FALSE
    /\ loginCall = NoAuthCall
    /\ refreshCall = NoAuthCall
    /\ navigating = FALSE

\* AuthProvider.login up to the await in AuthService.login: the login
\* request is sent.
LoginClick ==
    /\ ~navigating
    /\ loginCall.pc \in {"idle", "resolved", "rejected"}
    /\ isLoading' = TRUE
    /\ loginCall' = [pc |-> "loginSent", withToken |-> storedToken]
    /\ UNCHANGED <<storedToken, storedUser, authHeader, user, refreshCall, navigating>>
    /\ UNCHANGED <<polVars, bedVars, srvVars, cmVars, pageVars>>

\* The answer to the login request.  On 200 AuthService.login stores the
\* token and sets the header, and AuthProvider.login goes on to
\* AuthService.getCurrentUser, whose request is sent.  Otherwise the error
\* is rethrown through both catch blocks and finally setIsLoading(false).
LoginResponse(res) ==
    /\ loginCall.pc = "loginSent"
    /\ res \in LoginAnswers
    /\ IF res = "ok"
       THEN /\ storedToken' = TRUE
            /\ authHeader' = TRUE
            /\ loginCall' = [pc |-> "meSent", withToken |-> TRUE]
            /\ UNCHANGED <<storedUser, isLoading, navigating>>
       ELSE /\ Intercepted(res, storedToken, storedUser)
            /\ isLoading' = FALSE
            /\ loginCall' = [pc |-> "rejected", withToken |-> FALSE]
            /\ UNCHANGED authHeader
    /\ UNCHANGED <<user, refreshCall>>
    /\ UNCHANGED <<polVars, bedVars, srvVars, cmVars, pageVars>>

\* The answer to the getCurrentUser request of login.  On 200 the user is
\* stored and setUser is called; otherwise the error is rethrown.  Finally
\* setIsLoading(false).
LoginMeResponse(res) ==
    /\ loginCall.pc = "meSent"
    /\ res \in MeAnswers(loginCall.withToken)
    /\ IF res = "ok"
       THEN /\ storedUser' = TRUE
            /\ user' = TheUser
            /\ loginCall' = [pc |-> "resolved", withToken |-> FALSE]
            /\ UNCHANGED <<storedToken, navigating>>
       ELSE /\ Intercepted(res, storedToken, storedUser)
            /\ loginCall' = [pc |-> "rejected", withToken |-> FALSE]
            /\ UNCHANGED user
    /\ isLoading' = FALSE
    /\ UNCHANGED <<authHeader, refreshCall>>
    /\ UNCHANGED <<polVars, bedVars, srvVars, cmVars, pageVars>>

\* AuthProvider.refreshUser up to its await: the getCurrentUser request is
\* sent, with the token the storage holds at that moment.
RefreshUser ==
    /\ ~navigating
    /\ refreshCall.pc = "idle"
    /\ refreshCall' = [pc |-> "meSent", withToken |-> storedToken]
    /\ UNCHANGED <<storedToken, storedUser, authHeader, user, isLoading, loginCall,
                   navigating>>
    /\ UNCHANGED <<polVars, bedVars, srvVars, cmVars, pageVars>>

\* The answer to the getCurrentUser request of refreshUser.
RefreshResponse(res) ==
    /\ refreshCall.pc = "meSent"
    /\ res \in MeAnswers(refreshCall.withToken)
    /\ IF res = "ok"
       THEN /\ storedUser' = TRUE
            /\ user' = TheUser
            /\ UNCHANGED <<storedToken, navigating>>
       ELSE /\ Intercepted(res, storedToken, storedUser)
            /\ UNCHANGED user
    /\ refreshCall' = NoAuthCall
    /\ UNCHANGED <<authHeader, isLoading, loginCall>>
    /\ UNCHANGED <<polVars, bedVars, srvVars, cmVars, pageVars>>

\* AuthProvider.logout: AuthService.logout() removes both entries and the
\* header and assigns window.location.href; finally setUser(null) and
\* setIsLoading(false).  The function has no await.
Logout ==
    /\ ~navigating
    /\ storedToken' = FALSE
    /\ storedUser' = FALSE
    /\ authHeader' = FALSE
    /\ navigating' = TRUE
    /\ user' = Null
    /\ isLoading' = FALSE
    /\ UNCHANGED <<loginCall, refreshCall>>
    /\ UNCHANGED <<polVars, bedVars, srvVars, cmVars, pageVars>>

\* Another request of the application (a page's fetch) is answered 401.
OtherRequestUnauthorized ==
    /\ ~navigating
    /\ storedToken
    /\ Intercepted("unauthorized", storedToken, storedUser)
    /\ UNCHANGED <<authHeader, user, isLoading, loginCall, refreshCall>>
    /\ UNCHANGED <<polVars, bedVars, srvVars, cmVars, pageVars>>

\* The navigation to /login completes: the document is replaced, the calls
\* in flight are gone with it, and AuthProvider mounts anew: initAuth reads
\* the token and, with a token, the stored user.
PageLoad ==
    /\ navigating
    /\ navigating' = FALSE
    /\ authHeader' = FALSE
    /\ user' = IF storedToken /\ storedUser THEN TheUser ELSE Null
    /\ isLoading' = FALSE
    /\ loginCall' = NoAuthCall
    /\ refreshCall' = NoAuthCall
    /\ UNCHANGED <<storedToken, storedUser>>
    /\ UNCHANGED <<polVars, bedVars, srvVars, cmVars, pageVars>>

AuthNext ==
    \/ LoginClick
    \/ \E res \in LoginAnswers : LoginResponse(res)
    \/ \E res \in LoginAnswers : LoginMeResponse(res)
    \/ RefreshUser
    \/ \E res \in LoginAnswers : RefreshResponse(res)
    \/ Logout
    \/ OtherRequestUnauthorized
    \/ PageLoad

SpecAuth == AuthInit /\ [][AuthNext]_vars

\* ------------------------------------------------------------- the server
\* The backend is not part of the sources at hand; the assignment
\* transaction and the snapshot queries follow sections 4.2 and 6 of the
\* specification.

\* The diagnosis of each patient: patients alternate over the diagnoses.
PatDiag(p) == ((p - 1) % MaxDiag) + 1

\* The number of patients linked to ward w.
Members(pats, w) == Cardinality({ p \in Patients : pats[p] = w })

\* The n wards of a hospital whose wards all have capacity c and whose last
\* ward carries the diagnosis tag t, with the occupancy that the patient
\* links pats give.
ServerWards(n, c, t, pats) ==
    [w \in 1..n |->
        [id |-> w, diagnosis_id |-> IF w = n THEN t ELSE Null,
         max_capacity |-> c, current_occupancy |-> Members(pats, w)]]

\* An assignment transaction that commits without re-checking the capacity.
commitResultUnchecked(sw, p, w) == "Success"

\* An assignment transaction that turns a request down only when the ward
\* already holds more patients than beds.
commitResultAboveCapacity(sw, p, w) ==
    IF sw[w].current_occupancy > sw[w].max_capacity
    THEN "CapacityExceeded" ELSE "Success"

\* commitAssignment, the outcome: CapacityExceeded when the target ward is
\* full at commit time.
commitResult(sw, p, w) ==
    IF sw[w].current_occupancy >= sw[w].max_capacity
    THEN "CapacityExceeded" ELSE "Success"

\* An assignment transaction that counts the patient into the target ward
\* and never out of the ward the patient leaves.
commitWardsNoDecrement(sw, sp, p, w) ==
    [x \in DOMAIN sw |->
        [sw[x] EXCEPT !.current_occupancy = IF x = w THEN @ + 1 ELSE @]]

\* An assignment transaction that counts a patient into the target ward
\* again when the patient is already in it.
commitWardsSameWardCounted(sw, sp, p, w) ==
    [x \in DOMAIN sw |->
        [sw[x] EXCEPT !.current_occupancy =
            IF x = w THEN @ + 1 ELSE IF x = sp[p] THEN @ - 1 ELSE @]]

\* commitAssignment, the wards after a success: the target gains the patient
\* and, on a move, the source loses it.
commitWards(sw, sp, p, w) ==
    IF sp[p] = w THEN sw
    ELSE [x \in DOMAIN sw |->
            [sw[x] EXCEPT !.current_occupancy =
                IF x = w THEN @ + 1 ELSE IF x = sp[p] THEN @ - 1 ELSE @]]

\* An assignment transaction that moves the counters of the wards and leaves
\* the link of a patient who already has a ward.
commitPatientsKeepOnMove(sp, p, w) ==
    IF sp[p] = Null THEN [sp EXCEPT ![p] = w] ELSE sp

\* commitAssignment, the patient links after a success.
commitPatients(sp, p, w) == [sp EXCEPT ![p] = w]

\* The atomic unit of work of one commitAssignment(p, w): res is its outcome.
Commit(p, w, res) ==
    /\ res = commitResult(srvWards, p, w)
    /\ IF res = "Success"
       THEN /\ srvWards' = commitWards(srvWards, srvPatients, p, w)
            /\ srvPatients' = commitPatients(srvPatients, p, w)
       ELSE UNCHANGED srvVars

\* --------------------------------------------------------------- SpecCommit
\* Assignment calls issued together; the server takes them one at a time in
\* any order.

NoCall == [ward |-> Null, status |-> "none"]

CmInit ==
    /\ PolIdle /\ BedIdle /\ AuthIdle /\ PageIdle
    /\ \E c \in 1..MaxCap :
        /\ srvPatients \in [Patients -> {Null} \cup WardIds]
        /\ \A w \in WardIds : Members(srvPatients, w) <= c
        /\ srvWards = ServerWards(MaxWards, c, Null, srvPatients)
    /\ \E target \in WardIds, callers \in SUBSET Patients :
        cmCalls = [p \in Patients |->
                    IF p \in callers THEN [ward |-> target, status |-> "pending"]
                    ELSE NoCall]
    /\ cmStart = [wards |-> srvWards, patients |-> srvPatients]

CmServe(p) ==
    /\ cmCalls[p].status = "pending"
    /\ \E res \in {"Success", "CapacityExceeded"} :
        /\ Commit(p, cmCalls[p].ward, res)
        /\ cmCalls' = [cmCalls EXCEPT ![p].status = res]
    /\ UNCHANGED <<polVars, bedVars, authVars, pageVars, cmStart>>

CmNext == \E p \in Patients : CmServe(p)

SpecCommit == CmInit /\ [][CmNext]_vars

\* ------------------------------------------------------ Distribution.tsx

\* listUnassignedPatients: the patients without a ward, by ascending id
\* (the page's filter of the patient list on !p.ward_id).
RECURSIVE UnassignedFrom(_, _)
UnassignedFrom(sp, p) ==
    IF p > NumPatients THEN <<>>
    ELSE IF sp[p] = Null THEN <<p>> \o UnassignedFrom(sp, p + 1)
    ELSE UnassignedFrom(sp, p + 1)

IdleFetch == [pc |-> "idle", data |-> <<>>]
IdleAssign == [pc |-> "idle", patient |-> Null, ward |-> Null]
IdleBatch == [pc |-> "idle", patients |-> <<>>, wards |-> <<>>, idx |-> 0, ward |-> Null]
NoReport == [patients |-> {}, start |-> <<>>, free |-> 0, fresh |-> FALSE,
             assigned |-> {}, failed |-> {}, alone |-> TRUE, done |-> FALSE,
             attempts |-> [p \in Patients |-> 0]]

HasIdleSlot == \E i \in DOMAIN fetch : fetch[i].pc = "idle"

\* fetchData() up to its first await: the request for the patients is sent.
\* (setLoading(true) is the caller's to combine with its own updates.)
StartFetch(f) ==
    LET i == CHOOSE k \in DOMAIN f :
                f[k].pc = "idle" /\ \A j \in 1..(k - 1) : f[j].pc # "idle"
    IN  [f EXCEPT ![i] = [pc |-> "patientsSent", data |-> <<>>]]

\* prev.filter((p) => p.id !== id)
RemovePatient(prev, id) == SelectSeq(prev, LAMBDA q : q # id)

\* A map without its test of the ward id: every ward is incremented.
IncrementEveryWard(prev, wardId) ==
    [i \in 1..Len(prev) |->
        [prev[i] EXCEPT !.current_occupancy = (IF @ = Null THEN 0 ELSE @) + 1]]

\* prev.map((w) => w.id === wardId ? {...w, current_occupancy:
\* (w.current_occupancy || 0) + 1} : w)
IncrementWard(prev, wardId) ==
    [i \in 1..Len(prev) |->
        IF prev[i].id = wardId
        THEN [prev[i] EXCEPT !.current_occupancy =
                (IF @ = Null THEN 0 ELSE @) + 1]
        ELSE prev[i]]

PatientRecord(p) == [id |-> p, diagnosis_id |-> PatDiag(p)]

\* Another writer committed while a batch run was in progress.
Disturbed(rep, res) ==
    IF batch.pc # "idle" /\ res = "Success" THEN [rep EXCEPT !.alone = FALSE]
    ELSE rep

\* The page has just been mounted in a hospital of n wards of capacity c
\* whose patients are all unassigned; other callers may make ext assignments.
PageInitSlots(n, c, t, ext, k) ==
    /\ PolIdle /\ BedIdle /\ AuthIdle /\ CmIdle
    /\ srvPatients = [p \in Patients |-> Null]
    /\ srvWards = ServerWards(n, c, t, srvPatients)
    /\ extLeft = ext
    /\ unassignedPatients = <<>>
    /\ wards = <<>>
    /\ error = ""
    /\ selectedPatient = Null
    /\ modalOpen = FALSE
    /\ distributing = FALSE
    /\ assign = IdleAssign
    /\ batch = IdleBatch
    /\ report = NoReport
    \* useEffect(() => { fetchData(); }, [])
    /\ loading = TRUE
    /\ fetch = StartFetch([i \in 1..k |-> IdleFetch])

PageInit(n, c, t, ext) == PageInitSlots(n, c, t, ext, MaxFetch)

Init == \E c \in 1..MaxBeds : PageInit(MaxWards, c, Null, 0)

\* ---- fetchData

\* The server answers the request for the patients.
FetchPatientsServe(i) ==
    /\ fetch[i].pc = "patientsSent"
    /\ fetch' = [fetch EXCEPT ![i] =
                    [pc |-> "patientsAnswered", data |-> UnassignedFrom(srvPatients, 1)]]
    /\ UNCHANGED <<polVars, bedVars, authVars, error, srvVars, cmVars, unassignedPatients, wards, loading,
                   selectedPatient, modalOpen, distributing, assign, batch,
                   report, extLeft>>

\* The patients arrive: setUnassignedPatients, then the wards are requested.
FetchPatientsDone(i) ==
    /\ fetch[i].pc = "patientsAnswered"
    /\ unassignedPatients' = fetch[i].data
    /\ fetch' = [fetch EXCEPT ![i] = [pc |-> "wardsSent", data |-> <<>>]]
    /\ UNCHANGED <<polVars, bedVars, authVars, error, srvVars, cmVars, wards, loading, selectedPatient,
                   modalOpen, distributing, assign, batch, report, extLeft>>

\* The server answers the request for the wards.
FetchWardsServe(i) ==
    /\ fetch[i].pc = "wardsSent"
    /\ fetch' = [fetch EXCEPT ![i] = [pc |-> "wardsAnswered", data |-> srvWards]]
    /\ UNCHANGED <<polVars, bedVars, authVars, error, srvVars, cmVars, unassignedPatients, wards, loading,
                   selectedPatient, modalOpen, distributing, assign, batch,
                   report, extLeft>>

\* The wards arrive: setWards, and finally setLoading(false).
FetchWardsDone(i) ==
    /\ fetch[i].pc = "wardsAnswered"
    /\ wards' = fetch[i].data
    /\ loading' = FALSE
    /\ fetch' = [fetch EXCEPT ![i] = IdleFetch]
    /\ error' = ""
    /\ UNCHANGED <<polVars, bedVars, authVars, srvVars, cmVars, unassignedPatients, selectedPatient,
                   modalOpen, distributing, assign, batch, report, extLeft>>

\* A request of fetchData fails: catch (setError) and finally
\* setLoading(false).
FetchFail(i) ==
    /\ fetch[i].pc \in {"patientsSent", "wardsSent"}
    /\ loading' = FALSE
    /\ fetch' = [fetch EXCEPT ![i] = IdleFetch]
    /\ error' = "Failed to load distribution data"
    /\ UNCHANGED <<polVars, bedVars, authVars, srvVars, cmVars, unassignedPatients, wards,
                   selectedPatient, modalOpen, distributing, assign, batch,
                   report, extLeft>>

\* onClose of the alert that shows the error message.
DismissError ==
    /\ error # ""
    /\ error' = ""
    /\ UNCHANGED <<polVars, bedVars, authVars, srvVars, cmVars, unassignedPatients, wards, loading,
                   selectedPatient, modalOpen, distributing, fetch, assign, batch,
                   report, extLeft>>

\* ---- the assignment dialog and handleAssignWard

\* onRowClick of the grid of unassigned patients (the open dialog is modal
\* and covers the grid).
RowClick(p) ==
    /\ ~modalOpen
    /\ \E i \in 1..Len(unassignedPatients) : unassignedPatients[i] = p
    /\ selectedPatient' = p
    /\ modalOpen' = TRUE
    /\ UNCHANGED <<polVars, bedVars, authVars, error, srvVars, cmVars, unassignedPatients, wards, loading,
                   distributing, fetch, assign, batch, report, extLeft>>

\* onClose of the dialog.
CloseModal ==
    /\ modalOpen
    /\ modalOpen' = FALSE
    /\ UNCHANGED <<polVars, bedVars, authVars, error, srvVars, cmVars, unassignedPatients, wards, loading,
                   selectedPatient, distributing, fetch, assign, batch, report,
                   extLeft>>

\* handleAssignWard(wardId) up to its await: a ward button of the dialog is
\* pressed (the buttons are disabled while loading).  One call is followed
\* at a time.
AssignClick(w) ==
    /\ modalOpen
    /\ selectedPatient # Null
    /\ ~loading
    /\ assign.pc = "idle"
    /\ \E i \in 1..Len(wards) : wards[i].id = w
    /\ loading' = TRUE
    /\ assign' = [pc |-> "sent", patient |-> selectedPatient, ward |-> w]
    /\ UNCHANGED <<polVars, bedVars, authVars, error, srvVars, cmVars, unassignedPatients, wards,
                   selectedPatient, modalOpen, distributing, fetch, batch,
                   report, extLeft>>

\* The server runs the assignment transaction for the request.
AssignServe ==
    /\ assign.pc = "sent"
    /\ \E res \in {"Success", "CapacityExceeded"} :
        /\ Commit(assign.patient, assign.ward, res)
        /\ assign' = [assign EXCEPT !.pc = IF res = "Success" THEN "ok" ELSE "failed"]
        /\ report' = Disturbed(report, res)
    /\ UNCHANGED <<polVars, bedVars, authVars, error, cmVars, unassignedPatients, wards, loading,
                   selectedPatient, modalOpen, distributing, fetch, batch, extLeft>>

\* A handler without its finally block: loading is left on.
loadingLeftOn == TRUE

\* finally { setLoading(false) } of handleAssignWard.
loadingAfterAssign == FALSE

\* handleAssignWard after its await, the request succeeded: the local
\* update, the dialog closes, fetchData() is called, finally
\* setLoading(false).  fetchData calls are followed while a slot is idle.
AssignDone ==
    /\ assign.pc = "ok"
    /\ HasIdleSlot
    /\ unassignedPatients' = RemovePatient(unassignedPatients, assign.patient)
    /\ wards' = IncrementWard(wards, assign.ward)
    /\ modalOpen' = FALSE
    /\ selectedPatient' = Null
    /\ fetch' = StartFetch(fetch)
    /\ loading' = loadingAfterAssign
    /\ assign' = IdleAssign
    /\ UNCHANGED <<polVars, bedVars, authVars, error, srvVars, cmVars, distributing, batch, report, extLeft>>

\* handleAssignWard after its await, the request failed: catch (setError)
\* and finally setLoading(false).
AssignFailed ==
    /\ assign.pc = "failed"
    /\ loading' = loadingAfterAssign
    /\ assign' = IdleAssign
    /\ error' = "Failed to assign ward"
    /\ UNCHANGED <<polVars, bedVars, authVars, srvVars, cmVars, unassignedPatients, wards,
                   selectedPatient, modalOpen, distributing, fetch, batch,
                   report, extLeft>>

\* ---- handleAutoDistribute

\* The index of the first patient from k on for whom suggestWard, run on the
\* ward list ws, returns a ward; 0 when there is none.
NextIdx(pats, ws, k) ==
    LET S == { j \in k..Len(pats) : suggestWard(PatientRecord(pats[j]), ws) # 0 }
    IN  IF S = {} THEN 0 ELSE CHOOSE j \in S : \A i \in S : j <= i

\* The for loop from patient k up to its next await, or to its end: the
\* patients without a suggested ward are passed over, the request for the
\* first patient with one is sent; at the end fetchData() is called and
\* finally setDistributing(false).  ws is the ward list the handler closed
\* over when it was invoked.
BatchLoop(pats, ws, k, rep) ==
    LET j == NextIdx(pats, ws, k)
        last == IF j = 0 THEN Len(pats) ELSE j - 1
        rep2 == [rep EXCEPT !.failed =
                    @ \cup { <<pats[i], "NoWardAvailable">> : i \in k..last }]
    IN  IF j # 0
        THEN /\ batch' = [pc |-> "sent", patients |-> pats, wards |-> ws, idx |-> j,
                          ward |-> ws[suggestWard(PatientRecord(pats[j]), ws)].id]
             /\ report' = rep2
             /\ distributing' = TRUE
             /\ UNCHANGED <<fetch, loading>>
        ELSE /\ HasIdleSlot
             /\ fetch' = StartFetch(fetch)
             /\ loading' = TRUE
             /\ distributing' = FALSE
             /\ batch' = IdleBatch
             /\ report' = [rep2 EXCEPT !.done = TRUE]

\* The free beds of all wards of the server.
FreeBeds(sw) ==
    LET RECURSIVE Sum(_)
        Sum(w) == IF w = 0 THEN 0
                  ELSE Sum(w - 1) + sw[w].max_capacity - sw[w].current_occupancy
    IN  Sum(Len(sw))

\* A button that is disabled with an empty list only.
DisabledWhenEmpty == Len(unassignedPatients) = 0

\* disabled={unassignedPatients.length === 0 || distributing} of the Auto
\* Distribute button.
AutoDistributeDisabled == Len(unassignedPatients) = 0 \/ distributing

\* The Auto Distribute button, pressed and confirmed:
\* patientsToAssign = [...unassignedPatients] and the loop starts.
AutoDistribute ==
    /\ ~modalOpen
    /\ ~AutoDistributeDisabled
    /\ BatchLoop(unassignedPatients, wards, 1,
                 [NoReport EXCEPT
                    !.patients = { unassignedPatients[i] : i \in 1..Len(unassignedPatients) },
                    !.start = wards,
                    !.free = FreeBeds(srvWards),
                    !.fresh = (wards = srvWards
                        /\ { unassignedPatients[i] : i \in 1..Len(unassignedPatients) }
                            = { p \in Patients : srvPatients[p] = Null }
                        /\ Len(unassignedPatients)
                            = Cardinality({ p \in Patients : srvPatients[p] = Null }))])
    /\ UNCHANGED <<polVars, bedVars, authVars, error, srvVars, cmVars, unassignedPatients, wards,
                   selectedPatient, modalOpen, assign, extLeft>>

\* The server runs the assignment transaction for the run's request.
BatchServe ==
    /\ batch.pc = "sent"
    /\ \E res \in {"Success", "CapacityExceeded"} :
        /\ Commit(batch.patients[batch.idx], batch.ward, res)
        /\ batch' = [batch EXCEPT !.pc = IF res = "Success" THEN "ok" ELSE "failed"]
    /\ report' = [report EXCEPT !.attempts[batch.patients[batch.idx]] = @ + 1]
    /\ UNCHANGED <<polVars, bedVars, authVars, error, cmVars, unassignedPatients, wards, loading,
                   selectedPatient, modalOpen, distributing, fetch, assign,
                   extLeft>>

\* The loop after its await, the request succeeded: the local update, then
\* the loop goes on.
BatchPutDone ==
    /\ batch.pc = "ok"
    /\ unassignedPatients' = RemovePatient(unassignedPatients, batch.patients[batch.idx])
    /\ wards' = IncrementWard(wards, batch.ward)
    /\ BatchLoop(batch.patients, batch.wards, batch.idx + 1,
                 [report EXCEPT !.assigned =
                    @ \cup {<<batch.patients[batch.idx], batch.ward>>}])
    /\ UNCHANGED <<polVars, bedVars, authVars, error, srvVars, cmVars, selectedPatient, modalOpen, assign,
                   extLeft>>

\* A loop whose failed request ends the run: the patients after the failed
\* one are not looked at.
AbortOnFailure(pats, idx) == Len(pats) + 1

\* A loop that asks again for the patient whose request failed.
RetrySamePatient(pats, idx) == idx

\* The inner catch: the failure is logged and the for loop goes on with the
\* patient after the failed one.
ContinueAfterFailure(pats, idx) == idx + 1

\* The loop after its await, the request failed: the inner catch logs the
\* failure, then the loop goes on.
BatchPutFailed ==
    /\ batch.pc = "failed"
    /\ BatchLoop(batch.patients, batch.wards,
                 ContinueAfterFailure(batch.patients, batch.idx),
                 [report EXCEPT !.failed =
                    @ \cup {<<batch.patients[batch.idx], "CommitFailed">>}])
    /\ UNCHANGED <<polVars, bedVars, authVars, error, srvVars, cmVars, unassignedPatients, wards,
                   selectedPatient, modalOpen, assign, extLeft>>

\* ---- the other callers

\* Another client (the patients page's handleSave with a changed ward_id)
\* has the server assign or move a patient.
ExternalCommit(p, w) ==
    /\ extLeft > 0
    /\ w \in DOMAIN srvWards
    /\ extLeft' = extLeft - 1
    /\ \E res \in {"Success", "CapacityExceeded"} :
        /\ Commit(p, w, res)
        /\ report' = Disturbed(report, res)
    /\ UNCHANGED <<polVars, bedVars, authVars, error, cmVars, unassignedPatients, wards, loading,
                   selectedPatient, modalOpen, distributing, fetch, assign, batch>>

Next ==
    \/ \E i \in 1..MaxFetch : FetchPatientsServe(i)
    \/ \E i \in 1..MaxFetch : FetchPatientsDone(i)
    \/ \E i \in 1..MaxFetch : FetchWardsServe(i)
    \/ \E i \in 1..MaxFetch : FetchWardsDone(i)
    \/ \E i \in 1..MaxFetch : FetchFail(i)
    \/ DismissError
    \/ \E p \in Patients : RowClick(p)
    \/ CloseModal
    \/ \E w \in WardIds : AssignClick(w)
    \/ AssignServe
    \/ AssignDone
    \/ AssignFailed
    \/ AutoDistribute
    \/ BatchServe
    \/ BatchPutDone
    \/ BatchPutFailed

Spec == Init /\ [][Next]_vars

\* ---------------------------------------------------------------- SpecBatch
\* The page used for batch runs only, beside other callers.

BatchInit ==
    \E n \in 1..MaxWards, c \in 1..MaxBeds, t \in {Null, 1} :
        PageInit(n, c, t, MaxExternal)

BatchNext ==
    \/ \E i \in 1..MaxFetch : FetchPatientsServe(i)
    \/ \E i \in 1..MaxFetch : FetchPatientsDone(i)
    \/ \E i \in 1..MaxFetch : FetchWardsServe(i)
    \/ \E i \in 1..MaxFetch : FetchWardsDone(i)
    \/ \E i \in 1..MaxFetch : FetchFail(i)
    \/ AutoDistribute
    \/ BatchServe
    \/ BatchPutDone
    \/ BatchPutFailed
    \/ \E p \in Patients, w \in WardIds : ExternalCommit(p, w)

SpecBatch == BatchInit /\ [][BatchNext]_vars

\* Every request is answered in the end, with a success or a failure, and
\* the continuation of an await runs once the answer is there.
BatchFairness ==
    /\ WF_vars(BatchServe)
    /\ WF_vars(BatchPutDone)
    /\ WF_vars(BatchPutFailed)
    /\ \A i \in 1..MaxFetch :
        /\ WF_vars(FetchPatientsServe(i))
        /\ WF_vars(FetchPatientsDone(i))
        /\ WF_vars(FetchWardsServe(i))
        /\ WF_vars(FetchWardsDone(i))

SpecBatchLive == SpecBatch /\ BatchFairness

\* --------------------------------------------------------------- SpecDialog
\* The page used for single assignments only, beside other callers.

DialogInit ==
    \E c \in 1..MaxBeds, t \in {Null, 1} :
        PageInit(MaxWards, c, t, MaxExternal)

DialogNext ==
    \/ \E i \in 1..MaxFetch : FetchPatientsServe(i)
    \/ \E i \in 1..MaxFetch : FetchPatientsDone(i)
    \/ \E i \in 1..MaxFetch : FetchWardsServe(i)
    \/ \E i \in 1..MaxFetch : FetchWardsDone(i)
    \/ \E i \in 1..MaxFetch : FetchFail(i)
    \/ DismissError
    \/ \E p \in Patients : RowClick(p)
    \/ CloseModal
    \/ \E w \in WardIds : AssignClick(w)
    \/ AssignServe
    \/ AssignDone
    \/ AssignFailed
    \/ \E p \in Patients, w \in WardIds : ExternalCommit(p, w)

SpecDialog == DialogInit /\ [][DialogNext]_vars

\* ----------------------------------------------------------------- SpecSync
\* The page used for single assignments only, with no other caller, with
\* room for one more fetchData call in flight and every fetchData request
\* answered with data.

SyncSlots == MaxFetch + 1

SyncInit == \E c \in 1..MaxBeds : PageInitSlots(MaxWards, c, Null, 0, SyncSlots)

SyncNext ==
    \/ \E i \in 1..SyncSlots : FetchPatientsServe(i)
    \/ \E i \in 1..SyncSlots : FetchPatientsDone(i)
    \/ \E i \in 1..SyncSlots : FetchWardsServe(i)
    \/ \E i \in 1..SyncSlots : FetchWardsDone(i)
    \/ \E p \in Patients : RowClick(p)
    \/ CloseModal
    \/ \E w \in WardIds : AssignClick(w)
    \/ AssignServe
    \/ AssignDone
    \/ AssignFailed

SpecSync == SyncInit /\ [][SyncNext]_vars

\* ---------------------------------------------------------------- SpecOrder
\* Batch runs on a patient list that the server answered in any order.

\* The orders in which a list of all patients can stand.
PatientOrders ==
    { s \in [1..NumPatients -> Patients] :
        \A i, j \in 1..NumPatients : i # j => s[i] # s[j] }

\* The page after its first fetchData has returned, in a hospital whose
\* patients are all unassigned: the page keeps the patients in the order of
\* the server's answer (filter keeps the order, nothing sorts).
OrderInit ==
    /\ PolIdle /\ BedIdle /\ AuthIdle /\ CmIdle
    /\ srvPatients = [p \in Patients |-> Null]
    /\ \E n \in 1..MaxWards, c \in 1..MaxBeds :
            srvWards = ServerWards(n, c, Null, srvPatients)
    /\ extLeft = 0
    /\ unassignedPatients \in PatientOrders
    /\ wards = srvWards
    /\ error = ""
    /\ selectedPatient = Null
    /\ modalOpen = FALSE
    /\ distributing = FALSE
    /\ assign = IdleAssign
    /\ batch = IdleBatch
    /\ report = NoReport
    /\ loading = FALSE
    /\ fetch = [i \in 1..MaxFetch |-> IdleFetch]

OrderNext ==
    \/ \E i \in 1..MaxFetch : FetchPatientsServe(i)
    \/ \E i \in 1..MaxFetch : FetchPatientsDone(i)
    \/ \E i \in 1..MaxFetch : FetchWardsServe(i)
    \/ \E i \in 1..MaxFetch : FetchWardsDone(i)
    \/ \E i \in 1..MaxFetch : FetchFail(i)
    \/ AutoDistribute
    \/ BatchServe
    \/ BatchPutDone
    \/ BatchPutFailed

SpecOrder == OrderInit /\ [][OrderNext]_vars

\* What a run over the list pats does when no one else writes: the
\* assignments made from patient k on, with ws the ward list the handler
\* closed over, sw the server's wards and acc the assignments made before.
RECURSIVE RunOutcome(_, _, _, _, _)
RunOutcome(pats, ws, k, sw, acc) ==
    IF k > Len(pats) THEN acc
    ELSE LET i == suggestWard(PatientRecord(pats[k]), ws)
             w == ws[i].id
             sp == [p \in Patients |-> Null]
         IN  IF i # 0 /\ commitResult(sw, pats[k], w) = "Success"
             THEN RunOutcome(pats, ws, k + 1, commitWards(sw, sp, pats[k], w),
                             acc \cup {<<pats[k], w>>})
             ELSE RunOutcome(pats, ws, k + 1, sw, acc)

\* ------------------------------------------------- properties of suggestWard

\* The occupancy of a ward of the snapshot, a missing one counting as 0.
Occ(w) == IF w.current_occupancy = Null THEN 0 ELSE w.current_occupancy
HasFree(w) == Occ(w) < w.max_capacity
\* The ward carries the tag of the patient's diagnosis.
Tagged(w) == polPatient.diagnosis_id \in DiagnosisIds
                /\ w.diagnosis_id = polPatient.diagnosis_id
PolIdx == 1..Len(polWards)
Rule1Applies == \E i \in PolIdx : Tagged(polWards[i]) /\ HasFree(polWards[i])
Rule2Applies == ~Rule1Applies /\ \E i \in PolIdx : Occ(polWards[i]) = 0
Rule3Applies == ~Rule1Applies /\ ~Rule2Applies
                    /\ \E i \in PolIdx : HasFree(polWards[i])
\* Ward a has an occupancy ratio no greater than ward b's.
RatioLeq(a, b) == Occ(a) * b.max_capacity <= Occ(b) * a.max_capacity

\* C4: when no ward of the snapshot has a free bed, suggestWard returns null.
C4_NoWardAvailable ==
    (polPc = "done" /\ \A i \in PolIdx : ~HasFree(polWards[i]))
        => polResult = 0

\* C7: rule 1. When some ward carries the patient's diagnosis and has a free
\* bed, the ward returned carries the patient's diagnosis and has a free bed.
C7_Rule1 ==
    (polPc = "done" /\ Rule1Applies)
        => /\ polResult # 0
           /\ Tagged(polWards[polResult])
           /\ HasFree(polWards[polResult])

\* Rule 1 chose a partially occupied ward of the diagnosis although an empty
\* ward stands before it in the list.
C7_Witness ==
    /\ polPc = "done"
    /\ Rule1Applies
    /\ polResult > 1
    /\ Occ(polWards[polResult]) > 0
    /\ Occ(polWards[1]) = 0

\* C8: rule 2. When no ward is both of the patient's diagnosis and free and
\* some ward is empty, the ward returned is empty.
C8_Rule2 ==
    (polPc = "done" /\ Rule2Applies)
        => /\ polResult # 0
           /\ Occ(polWards[polResult]) = 0

\* Scenario A: the ward of the diagnosis is full, a partially occupied ward
\* comes first, and the empty ward is returned.
C8_Witness ==
    /\ polPc = "done"
    /\ Rule2Applies
    /\ \E i \in PolIdx : Tagged(polWards[i]) /\ ~HasFree(polWards[i])
    /\ polResult = Len(polWards)
    /\ Occ(polWards[polResult]) = 0

\* C9: rule 3. When rules 1 and 2 do not apply and some ward has a free bed,
\* the ward returned has a free bed and its occupancy ratio is no greater
\* than that of any ward with a free bed.
C9_Rule3 ==
    (polPc = "done" /\ Rule3Applies)
        => /\ polResult # 0
           /\ HasFree(polWards[polResult])
           /\ \A j \in PolIdx :
                HasFree(polWards[j]) => RatioLeq(polWards[polResult], polWards[j])

\* Rule 3 chose a ward that holds more patients than another ward, because
\* its ratio is the smaller one.
C9_Witness ==
    /\ polPc = "done"
    /\ Rule3Applies
    /\ polResult # 0
    /\ \E j \in PolIdx : Occ(polWards[j]) < Occ(polWards[polResult])

\* The wards that tie with the ward at index r on the criterion of the rule
\* that chose it.
TiedWith(r) ==
    IF Rule1Applies
    THEN { j \in PolIdx : Tagged(polWards[j]) /\ HasFree(polWards[j]) }
    ELSE IF Rule2Applies
    THEN { j \in PolIdx : Occ(polWards[j]) = 0 }
    ELSE { j \in PolIdx : RatioLeq(polWards[j], polWards[r])
                            /\ RatioLeq(polWards[r], polWards[j]) }

\* C10 as stated: among tied wards the one with the smallest id is returned.
C10_SmallestId ==
    (polPc = "done" /\ polResult # 0)
        => \A j \in TiedWith(polResult) :
                polWards[polResult].id <= polWards[j].id

\* C10: among the wards that tie on the criterion of the rule that matched,
\* the one standing first in the ward list is returned.
C10_FirstInList ==
    (polPc = "done" /\ polResult # 0)
        => \A j \in TiedWith(polResult) : polResult <= j

\* A tie in which the list order differs from the id order.
C10_Witness ==
    /\ polPc = "done"
    /\ polResult # 0
    /\ \E j \in TiedWith(polResult) :
            j > polResult /\ polWards[j].id < polWards[polResult].id

NoDiagnosis == polPatient.diagnosis_id \in {Null, 0}

\* C27: for a patient without a diagnosis the diagnosis rule is never used:
\* the ward returned is the first ward of the list with occupancy 0 when
\* there is one, otherwise the first ward of minimum occupancy ratio (and
\* none from an empty list).
C27_NoDiagnosis ==
    (polPc = "done" /\ NoDiagnosis) =>
        IF PolIdx = {} THEN polResult = 0
        ELSE IF \E i \in PolIdx : Occ(polWards[i]) = 0
        THEN /\ polResult \in PolIdx
             /\ Occ(polWards[polResult]) = 0
             /\ \A j \in 1..(polResult - 1) : Occ(polWards[j]) # 0
        ELSE /\ polResult \in PolIdx
             /\ \A j \in PolIdx : RatioLeq(polWards[polResult], polWards[j])
             /\ \A j \in 1..(polResult - 1) :
                    ~RatioLeq(polWards[j], polWards[polResult])

\* A ward without a tag and with a free bed stands first in the list, and
\* the patient without a diagnosis is sent to a later ward.
C27_Witness ==
    /\ polPc = "done"
    /\ NoDiagnosis
    /\ polResult > 1
    /\ polWards[1].diagnosis_id = Null
    /\ HasFree(polWards[1])

\* C28: free beds. hasAvailableBeds is true exactly when getFreeBeds is
\* positive; getFreeBeds is never negative; and for a ward that holds no
\* more patients than its capacity it is the capacity less the occupancy,
\* a missing occupancy counting as 0.
C28_FreeBeds ==
    /\ "getFreeBeds" \in bedsCalled
        => /\ freeBeds >= 0
           /\ Occ(bedsWard) <= bedsWard.max_capacity
                => freeBeds = bedsWard.max_capacity - Occ(bedsWard)
    /\ bedsCalled = {"getFreeBeds", "hasAvailableBeds"}
        => (availableBeds <=> freeBeds > 0)

\* Both functions were called on a ward that holds more patients than its
\* capacity: no bed is free and none is available.
C28_Witness ==
    /\ bedsCalled = {"getFreeBeds", "hasAvailableBeds"}
    /\ Occ(bedsWard) > bedsWard.max_capacity
    /\ freeBeds = 0
    /\ ~availableBeds

\* C22: no mixing of diagnoses. The ward returned never carries the tag of a
\* diagnosis other than the patient's.
C22_NoMixing ==
    (polPc = "done" /\ polResult # 0)
        => \/ polWards[polResult].diagnosis_id = Null
           \/ polWards[polResult].diagnosis_id = polPatient.diagnosis_id

\* ----------------------------------------------- properties of the server

\* The patients the run has recorded as failed, and as assigned.
FailedPatients == { f[1] : f \in report.failed }
AssignedPatients == { a[1] : a \in report.assigned }

CmCallers == { p \in Patients : cmCalls[p].status # "none" }
CmDone == CmCallers # {} /\ \A p \in CmCallers : cmCalls[p].status # "pending"
CmWith(w, st) ==
    Cardinality({ p \in CmCallers : cmCalls[p].ward = w /\ cmCalls[p].status = st })
CmFree(w) == cmStart.wards[w].max_capacity - cmStart.wards[w].current_occupancy
\* The calls are for distinct patients that were unassigned when issued,
\* with N calls for ward w and N above the free beds of w.
CmOverbooked(w) ==
    /\ \A p \in CmCallers : cmStart.patients[p] = Null /\ cmCalls[p].ward = w
    /\ Cardinality(CmCallers) > CmFree(w)

\* C1: invariant I1. After any interleaving of single assignments and batch
\* runs every ward holds at least 0 and at most max_capacity patients.
C1_Capacity ==
    \A w \in DOMAIN srvWards :
        /\ 0 <= srvWards[w].current_occupancy
        /\ srvWards[w].current_occupancy <= srvWards[w].max_capacity

\* A batch run and a single assignment both asked for the last bed of a
\* ward; the ward is full and one of the two was turned down.
C1_Witness ==
    /\ batch.pc \in {"ok", "failed"}
    /\ assign.pc \in {"ok", "failed"}
    /\ batch.pc # assign.pc
    /\ batch.ward = assign.ward
    /\ batch.patients[batch.idx] # assign.patient
    /\ srvWards[assign.ward].current_occupancy = srvWards[assign.ward].max_capacity

\* C6: invariant I2. The occupancy counter of every ward equals the number
\* of patients whose ward_id is that ward.
C6_CounterIsMembership ==
    \A w \in DOMAIN srvWards :
        srvWards[w].current_occupancy = Members(srvPatients, w)

\* The dialog moved a patient that the batch run had already placed: the
\* single assignment succeeded for a patient who is no longer in the ward the
\* run reported for them.
C6_Witness ==
    /\ assign.pc = "ok"
    /\ \E a \in report.assigned :
            a[1] = assign.patient /\ a[2] # assign.ward
    /\ srvPatients[assign.patient] = assign.ward

\* C14: move correctness. Every step that changes the server's state is one
\* assignment of one patient p to a ward B other than the ward A the patient
\* was in: the link of p becomes B, B gains exactly one patient, A (when the
\* patient had a ward) loses exactly one, and every other ward and patient
\* is unchanged, so p is counted in exactly one ward before and after.
C14_Move ==
    [][srvVars' # srvVars =>
        \E p \in Patients, B \in DOMAIN srvWards :
            LET A == srvPatients[p] IN
            /\ A # B
            /\ srvPatients' = [srvPatients EXCEPT ![p] = B]
            /\ DOMAIN srvWards' = DOMAIN srvWards
            /\ \A w \in DOMAIN srvWards :
                srvWards'[w] = [srvWards[w] EXCEPT !.current_occupancy =
                    @ + (IF w = B THEN 1 ELSE 0) - (IF w = A THEN 1 ELSE 0)]]_vars

\* The dialog has moved a patient out of the ward the batch run had put
\* them in: the ward left is empty again and the patient is counted in the
\* new ward only.
C14_Witness ==
    /\ assign.pc = "ok"
    /\ srvPatients[assign.patient] = assign.ward
    /\ \E a \in report.assigned :
            /\ a[1] = assign.patient
            /\ a[2] # assign.ward
            /\ srvWards[a[2]].current_occupancy = 0
            /\ Members(srvPatients, a[2]) = 0
    /\ srvWards[assign.ward].current_occupancy = Members(srvPatients, assign.ward)

\* The target ward of a request is full on the server.
FullAtCommit(w) == srvWards[w].current_occupancy = srvWards[w].max_capacity

\* C15: a request of the dialog or of a batch run that the server takes
\* while the target ward is full fails with CapacityExceeded, whatever the
\* ward list of the page shows, and changes no occupancy and no ward_id.
C15_CapacityExceeded ==
    [][/\ (assign.pc = "sent" /\ assign'.pc # "sent" /\ FullAtCommit(assign.ward))
            => (assign'.pc = "failed" /\ srvVars' = srvVars)
       /\ (batch.pc = "sent" /\ batch'.pc # "sent" /\ FullAtCommit(batch.ward))
            => (batch'.pc = "failed" /\ srvVars' = srvVars)]_vars

\* The dialog asked for a ward that the page still lists with a free bed
\* while the batch run had just filled it: the request was turned down and
\* the patient is still without a ward.
C15_Witness ==
    /\ assign.pc = "failed"
    /\ FullAtCommit(assign.ward)
    /\ srvPatients[assign.patient] = Null
    /\ \E i \in 1..Len(wards) :
            wards[i].id = assign.ward /\ HasFree(wards[i])

\* The sum of the occupancy counters of the server's wards.
RECURSIVE OccupancyUpTo(_)
OccupancyUpTo(w) ==
    IF w = 0 THEN 0 ELSE OccupancyUpTo(w - 1) + srvWards[w].current_occupancy
TotalOccupancy == OccupancyUpTo(Len(srvWards))

\* C16: in every reachable state the occupancy counters of all wards add up
\* to the number of patients that have a ward.
C16_SumInvariant ==
    TotalOccupancy = Cardinality({ p \in Patients : srvPatients[p] # Null })

\* Batch run and dialog together have placed every patient, in more than
\* one ward, and the dialog's last request was for a patient that already
\* had a ward.
C16_Witness ==
    /\ assign.pc = "ok"
    /\ assign.patient \in AssignedPatients
    /\ \A p \in Patients : srvPatients[p] # Null
    /\ \A w \in DOMAIN srvWards : srvWards[w].current_occupancy > 0
    /\ TotalOccupancy = NumPatients

\* The page's copy of a ward never shows more patients than beds.
PageWithinCapacity ==
    \A i \in 1..Len(wards) : Occ(wards[i]) <= wards[i].max_capacity

\* C2: N concurrent commitAssignment calls for distinct unassigned patients
\* on one ward with C < N free beds end, in every order of service, with
\* exactly C successes and N - C CapacityExceeded failures, and the ward
\* never holds more than its capacity.
C2_ConcurrentCommits ==
    \A w \in DOMAIN srvWards :
        /\ srvWards[w].current_occupancy <= srvWards[w].max_capacity
        /\ (CmDone /\ CmOverbooked(w))
            => /\ CmWith(w, "Success") = CmFree(w)
               /\ CmWith(w, "CapacityExceeded") = Cardinality(CmCallers) - CmFree(w)

\* Several calls raced for a partly occupied ward with fewer free beds than
\* calls: some succeeded and some failed.
C2_Witness ==
    /\ CmDone
    /\ \E w \in DOMAIN srvWards :
        /\ CmOverbooked(w)
        /\ CmFree(w) >= 1
        /\ CmFree(w) < cmStart.wards[w].max_capacity
        /\ CmWith(w, "Success") >= 1
        /\ CmWith(w, "CapacityExceeded") >= 1

\* ------------------------------------------- properties of a batch run

\* The number of patients the run has assigned to the ward with id w.
AssignedTo(w) == Cardinality({ a \in report.assigned : a[2] = w })

\* C3: the ward list passed to the policy for a patient of a run shows, for
\* every ward, the occupancy at the start of the run plus the assignments
\* the run has committed to that ward so far.
C3_WorkingSnapshot ==
    batch.pc = "sent"
        => \A i \in 1..Len(batch.wards) :
                Occ(batch.wards[i])
                    = Occ(report.start[i]) + AssignedTo(batch.wards[i].id)

\* C5: a run over p unassigned patients with f < p free beds, started on a
\* fresh snapshot and with no other writer during the run, ends with f
\* assignments, p - f failures and every ward full.
C5_FillsAllBeds ==
    (/\ report.done
     /\ report.fresh
     /\ report.alone
     /\ Cardinality(report.patients) > report.free)
        => /\ Cardinality(report.assigned) = report.free
           /\ Cardinality(report.failed)
                = Cardinality(report.patients) - report.free
           /\ \A w \in DOMAIN srvWards :
                srvWards[w].current_occupancy = srvWards[w].max_capacity

\* Scenario D: three unassigned patients and a single empty ward of capacity
\* 2 give two assignments, one failure and a final occupancy of 2.
ScenarioD ==
    (/\ report.done /\ report.fresh /\ report.alone
     /\ Len(srvWards) = 1
     /\ srvWards[1].max_capacity = 2
     /\ Cardinality(report.patients) = 3)
        => /\ Cardinality(report.assigned) = 2
           /\ Cardinality(report.failed) = 1
           /\ srvWards[1].current_occupancy = 2

\* C12: failure isolation. A run that met a failure still handles every
\* remaining patient, and a patient that comes after a failed one is assigned
\* when a ward has a free bed for them: with no other writer, no patient
\* after a failed one ends failed while a bed is free.
C12_FailureIsolation ==
    (report.done /\ report.fresh /\ report.alone)
        => /\ report.patients = FailedPatients \cup AssignedPatients
           /\ \A a, b \in FailedPatients :
                a < b => FreeBeds(srvWards) = 0

\* C13: retry. A patient is recorded as failed on a commit failure only
\* after a second commit attempt, made on a refreshed snapshot, has failed
\* too; no patient has more than two commit attempts in a run.
C13_Retry ==
    /\ \A p \in Patients : report.attempts[p] <= 2
    /\ \A f \in report.failed :
            f[2] = "CommitFailed" => report.attempts[f[1]] = 2

RunState(rep, b, p) ==
    IF p \in { a[1] : a \in rep.assigned } THEN "Committed"
    ELSE IF p \in { f[1] : f \in rep.failed } THEN "Failed"
    ELSE IF b.pc # "idle" /\ b.patients[b.idx] = p THEN "PolicySelected"
    ELSE IF p \in rep.patients THEN "Unassigned"
    ELSE "None"

\* The step starts a new run.
RunStarts == ~distributing /\ report' # report

\* The ids listed as unassigned on the page.
Listed == { unassignedPatients[i] : i \in 1..Len(unassignedPatients) }

RECURSIVE AscendingFrom(_, _)
AscendingFrom(S, p) ==
    IF p > NumPatients THEN <<>>
    ELSE IF p \in S THEN <<p>> \o AscendingFrom(S, p + 1)
    ELSE AscendingFrom(S, p + 1)

\* C19: a run handles its patients one at a time (when the request for a
\* patient is out, every patient before it in the list has its outcome) and
\* in ascending id: a run on fresh data with no other writer makes the
\* assignments of the run that takes the same patients by ascending id,
\* whatever the order of the list it was given.
C19_AscendingOrder ==
    /\ batch.pc # "idle" =>
            \A i \in 1..(batch.idx - 1) :
                batch.patients[i] \in AssignedPatients \cup FailedPatients
    /\ (report.done /\ report.fresh /\ report.alone) =>
            report.assigned
                = RunOutcome(AscendingFrom(report.patients, 1), report.start, 1,
                             report.start, {})

\* C20: batch-level idempotence. A run invoked after an earlier run has no
\* patient in its input that the earlier run assigned, so it issues no
\* request for such a patient; and a run started with no free bed left, with
\* no other writer, changes no occupancy and no ward_id.
C20_Idempotent ==
    /\ [][RunStarts => report'.patients \cap AssignedPatients = {}]_vars
    /\ [][(/\ batch.pc = "sent" /\ batch'.pc # "sent"
            /\ report.free = 0 /\ report.alone)
            => srvVars' = srvVars]_vars

\* ------------------------------------------- properties of the dialog

\* C21: a failed single assignment can be retried at once. The request that
\* fails changes nothing on the server, and the handler's way out of the
\* failure leaves the unassigned list, the wards, the selected patient and
\* the dialog as they were, with loading off and no call held.
C21_Retryable ==
    [][/\ (assign.pc = "sent" /\ assign'.pc = "failed") => srvVars' = srvVars
       /\ (assign.pc = "failed" /\ assign'.pc # "failed")
            => /\ unassignedPatients' = unassignedPatients
               /\ wards' = wards
               /\ srvVars' = srvVars
               /\ selectedPatient' = selectedPatient
               /\ modalOpen' = modalOpen
               /\ loading' = FALSE
               /\ assign' = IdleAssign]_vars

\* The alert still shows the failure of an assignment while the next
\* request of the dialog, made from the same open dialog, has succeeded.
C21_Witness ==
    /\ error = "Failed to assign ward"
    /\ assign.pc = "ok"
    /\ modalOpen
    /\ selectedPatient = assign.patient
    /\ srvPatients[assign.patient] = assign.ward

\* The step is the part of handleAssignWard that follows a successful
\* request: the local update, made before the refresh is answered.
AssignSucceeds == assign.pc = "ok" /\ assign'.pc = "idle"

\* C25: the local update of a successful handleAssignWard(wardId). The
\* patient of the call leaves the unassigned list and the other patients
\* stay, in their order; the ward list keeps its length and order, the ward
\* of the call has one more occupant and nothing else of it changes, and
\* every other ward is as it was.
C25_AssignFrame ==
    [][AssignSucceeds =>
        /\ unassignedPatients' =
              SelectSeq(unassignedPatients, LAMBDA q : q # assign.patient)
        /\ \A q \in Listed \ {assign.patient} : q \in Listed'
        /\ assign.patient \notin Listed'
        /\ Len(wards') = Len(wards)
        /\ \A i \in 1..Len(wards) :
              IF wards[i].id = assign.ward
              THEN /\ wards'[i].current_occupancy = wards[i].current_occupancy + 1
                   /\ wards'[i].id = wards[i].id
                   /\ wards'[i].max_capacity = wards[i].max_capacity
                   /\ wards'[i].diagnosis_id = wards[i].diagnosis_id
              ELSE wards'[i] = wards[i]]_vars

\* The local update has been made and its refresh is not answered yet:
\* the page shows the patient's ward with its new occupant, another ward
\* untouched and the other patients still listed, while loading is off.
C25_Witness ==
    /\ assign.pc = "idle"
    /\ ~loading
    /\ \E i \in DOMAIN fetch : fetch[i].pc = "patientsSent"
    /\ \E p \in Patients :
        /\ srvPatients[p] # Null
        /\ p \notin Listed
        /\ Listed = Patients \ {p}
        /\ \E i, j \in 1..Len(wards) :
            /\ wards[i].id = srvPatients[p]
            /\ wards[i].current_occupancy = 1
            /\ wards[j].current_occupancy = 0

\* A run is in progress: handleAutoDistribute is at an await of its loop.
RunInProgress == batch.pc # "idle"

\* The run in progress after the step is the one in progress before it,
\* further on in its list.
SameRun ==
    /\ batch'.patients = batch.patients
    /\ batch'.wards = batch.wards
    /\ batch'.idx >= batch.idx
    /\ report'.patients = report.patients
    /\ \A p \in Patients : report'.attempts[p] >= report.attempts[p]

\* C26: distributing is true exactly while a confirmed run is in progress;
\* a run in progress is never replaced by another run, so that at most one
\* run of the page is in progress; and whatever its requests are answered,
\* the run ends and distributing is false again.
C26_Distributing ==
    /\ [](distributing <=> RunInProgress)
    /\ [][RunInProgress => (~RunInProgress' \/ SameRun)]_vars
    /\ (distributing ~> ~distributing)

\* A run with a request that succeeded and a request that failed has ended
\* and distributing is off.
C26_Witness ==
    /\ ~distributing
    /\ report.done
    /\ report.assigned # {}
    /\ \E f \in report.failed : f[2] = "CommitFailed"

\* C29: localStorage never holds user data without an access token.
C29_UserImpliesToken == storedUser => storedToken

\* C30: when AuthProvider.login rejects, no access token is stored, the
\* user state is as it was and isLoading is false.
C30_RejectedLoginUnauthenticated ==
    [][(loginCall.pc # "rejected" /\ loginCall'.pc = "rejected")
        => /\ ~storedToken'
           /\ user' = user
           /\ ~isLoading']_vars

\* C24: a run that started on fresh data issues no request for a patient
\* who already has a ward: a patient of the run's list whom the dialog has
\* assigned before the run reaches them is passed over.
C24_NoRequestForAssigned ==
    [][(/\ batch'.pc = "sent"
        /\ batch.pc # "sent" \/ batch'.idx # batch.idx
        /\ report'.fresh)
        => srvPatients[batch'.patients[batch'.idx]] = Null]_vars

\* No call of the page is in flight.
Quiescent ==
    /\ assign.pc = "idle"
    /\ batch.pc = "idle"
    /\ \A i \in DOMAIN fetch : fetch[i].pc = "idle"

\* C23: final sync. When an assignment or a run has finished, every
\* fetchData answer has arrived (the last of them a success) and no other
\* client has written, the page lists exactly the patients without a ward
\* and shows the wards as the server has them.
C23_FinalSync ==
    (/\ Quiescent
     /\ error = ""
     /\ \E p \in Patients : srvPatients[p] # Null)
        => /\ unassignedPatients = UnassignedFrom(srvPatients, 1)
           /\ wards = srvWards

====
